---- MODULE Spec2Model ----
(***************************************************************************)
(* The MIDI pattern RAG store of OrchestrAIte and its retrieval cascade    *)
(* (utils/midi_rag_system.py), with the two indexing paths that write the  *)
(* three collections of ./chroma_midi_db: MIDIRAGSystem's                  *)
(* index_midi_patterns_from_tegridy and the loader's add_patterns_to_db.   *)
(*                                                                         *)
(* The vector store is an external service.  A collection is modelled as   *)
(* the set of its records; a similarity query returns min(n, count)        *)
(* distinct records in some order with non-decreasing distances (the       *)
(* embedding decides the order, so every order is possible).  Scores and   *)
(* distances are in tenths: 5 is 0.5, 3 is 0.3.                            *)
(***************************************************************************)
EXTENDS Integers, Sequences, FiniteSets, TLC

VARIABLES store, runs, result, outcome, last, executor, synthetic_templates, composer_app

vars == <<store, runs, result, outcome, last, executor, synthetic_templates, composer_app>>

(***************************************************************************)
(* Bounds of the model.                                                    *)
(***************************************************************************)
MaxTopK == 2
MaxStore == 2
MaxExtracted == 1
MaxRuns == 2
MaxIndexed == 5

Types == {"segment", "progression", "melody"}
PatternTypes == Types \cup {"rhythm"}
TemplateGenres == {"pop", "rock", "classical", "jazz"}
QueryGenres == {"Rock", "funk"}
SeedGenres == <<"classical">>
Dists == {2, 12}

Min(a, b) == IF a < b THEN a ELSE b

Lower(g) == IF g = "Rock" THEN "rock" ELSE g

(***************************************************************************)
(* JSON values that a pattern payload can be.  A dict payload records      *)
(* which type-required key it holds (shape), where its content comes from  *)
(* (origin: a corpus file, the synthetic template table, a foreign         *)
(* writer), the template it was copied from and its own "genre" key.       *)
(***************************************************************************)
Value(k, sh, o, t, g) == [kind |-> k, shape |-> sh, origin |-> o, tmpl |-> t, genre |-> g]
NullV == Value("null", "none", "none", "none", "none")
EmptyDictV == Value("emptydict", "none", "none", "none", "none")
ListV == Value("list", "none", "none", "none", "none")
DictV(sh, o, t, g) == Value("dict", sh, o, t, g)

Truthy(v) == v.kind \in {"dict", "list"}

(***************************************************************************)
(* Strings that are parsed as JSON: json.dumps(v), or text that is not     *)
(* JSON.  A metadata value may also be missing.                            *)
(***************************************************************************)
JsonDumps(v) == [tag |-> "json", val |-> v]
Garbage == [tag |-> "garbage", val |-> NullV]
Absent == [tag |-> "absent", val |-> NullV]

Meta(some, g, ty, pd, syn) == [some |-> some, genre |-> g, type |-> ty, pd |-> pd, synthetic |-> syn]
NoMeta == Meta(FALSE, "absent", "absent", Absent, FALSE)
Doc(some, marker, tail) == [some |-> some, marker |-> marker, tail |-> tail]
NoDoc == Doc(FALSE, FALSE, Garbage)
PlainDoc == Doc(TRUE, FALSE, Garbage)

Id(a, t, i, n) == [a |-> a, t |-> t, i |-> i, n |-> n]
NoId == Id("none", "none", 0, 0)
Rec(id, meta, doc) == [id |-> id, meta |-> meta, doc |-> doc]

(***************************************************************************)
(* collection.add: a record whose id is already in the collection is not   *)
(* added again.                                                            *)
(***************************************************************************)
Add(coll, rec) == IF \E r \in coll : r.id = rec.id THEN coll ELSE coll \cup {rec}

Count(coll) == Cardinality(coll)

GetCollectionStats(st) ==
    Count(st["segment"]) + Count(st["progression"]) + Count(st["melody"])

(***************************************************************************)
(* collection.query(n_results = n): min(n, count) distinct records, each   *)
(* with its distance, nearest first.                                       *)
(***************************************************************************)
InjSeqs(S, n) == {s \in [1..n -> S] : \A i, j \in 1..n : i # j => s[i] # s[j]}

Query(coll, n) ==
    LET m == Min(n, Count(coll)) IN
    {[i \in 1..m |-> [rec |-> rs[i], dist |-> ds[i]]] :
        rs \in InjSeqs(coll, m),
        ds \in {d \in [1..m -> Dists] : \A i, j \in 1..m : i <= j => d[i] <= d[j]}}

(***************************************************************************)
(* Recovery of pattern_data from one candidate: the metadata first, then   *)
(* the text after the ==PATTERN_DATA== marker of the document.             *)
(***************************************************************************)
FromMetadata(meta) ==
    IF meta.pd.tag = "json" THEN [pd |-> meta.pd.val, src |-> "metadata"]
    ELSE [pd |-> EmptyDictV, src |-> "none"]

Recover(meta, doc) ==
    IF ~meta.some THEN [status |-> "raise", pd |-> EmptyDictV, src |-> "none"]
    ELSE LET m == FromMetadata(meta) IN
         IF Truthy(m.pd) THEN [status |-> "ok", pd |-> m.pd, src |-> m.src]
         ELSE IF ~doc.some THEN [status |-> "raise", pd |-> m.pd, src |-> m.src]
         ELSE IF doc.marker /\ doc.tail.tag = "json"
              THEN [status |-> "ok", pd |-> doc.tail.val, src |-> "document"]
              ELSE [status |-> "ok", pd |-> m.pd, src |-> m.src]

IsValid(ptype, pd) == pd.kind = "dict" /\ pd.shape = ptype

Pattern(pd, score, g, ty, src, og, meta, id) ==
    [pattern_data |-> pd, similarity_score |-> score, genre |-> g, type |-> ty,
     data_source |-> src, original_genre |-> og, metadata |-> meta, id |-> id]

MetaGet(meta, key, default) ==
    IF key = "genre" THEN (IF meta.genre = "absent" THEN default ELSE meta.genre)
    ELSE (IF meta.type = "absent" THEN default ELSE meta.type)

(***************************************************************************)
(* The direct tier: every candidate of the query result is processed; a    *)
(* candidate is skipped, returned, or raises (which ends the whole call).  *)
(***************************************************************************)
DirectCandidate(c, genre, ptype) ==
    LET r == Recover(c.rec.meta, c.rec.doc) IN
    IF r.status = "raise" THEN [status |-> "raise", pat |-> <<>>]
    ELSE IF ~Truthy(r.pd) THEN [status |-> "skip", pat |-> <<>>]
    ELSE IF ~IsValid(ptype, r.pd) THEN [status |-> "skip", pat |-> <<>>]
    ELSE IF ~c.rec.doc.some THEN [status |-> "raise", pat |-> <<>>]
    ELSE [status |-> "ok",
          pat |-> <<Pattern(r.pd, 10 - c.dist, MetaGet(c.rec.meta, "genre", genre),
                            MetaGet(c.rec.meta, "type", ptype), r.src, "absent",
                            c.rec.meta, c.rec.id)>>]

RECURSIVE DirectPatterns(_, _, _)
DirectPatterns(cands, genre, ptype) ==
    IF cands = <<>> THEN <<>>
    ELSE DirectCandidate(Head(cands), genre, ptype).pat \o DirectPatterns(Tail(cands), genre, ptype)

DirectRaises(cands, genre, ptype) ==
    \E i \in 1..Len(cands) : DirectCandidate(cands[i], genre, ptype).status = "raise"

TrimNone(pats, top_k) == pats

TrimLast(pats, top_k) ==
    IF Len(pats) > top_k THEN SubSeq(pats, Len(pats) - top_k + 1, Len(pats)) ELSE pats

Trim(pats, top_k) == IF Len(pats) > top_k THEN SubSeq(pats, 1, top_k) ELSE pats

(***************************************************************************)
(* The random-adaptation tier: the sampled records are processed in order  *)
(* until one raises; what was collected before is kept.                    *)
(***************************************************************************)
RandomCandidate(rec, genre, ptype) ==
    LET r == Recover(rec.meta, rec.doc) IN
    IF r.status = "raise" THEN [status |-> "raise", pat |-> <<>>]
    ELSE IF ~Truthy(r.pd) THEN [status |-> "skip", pat |-> <<>>]
    ELSE [status |-> "ok",
          pat |-> <<Pattern(r.pd, 5, genre, ptype, r.src,
                            MetaGet(rec.meta, "genre", "unknown"), rec.meta, rec.id)>>]

RECURSIVE RandomPatterns(_, _, _)
RandomPatterns(sample, genre, ptype) ==
    IF sample = <<>> THEN <<>>
    ELSE LET c == RandomCandidate(Head(sample), genre, ptype) IN
         IF c.status = "raise" THEN <<>>
         ELSE c.pat \o RandomPatterns(Tail(sample), genre, ptype)

SampleSize(top_k, coll) == Min(top_k, Count(coll))

(***************************************************************************)
(* The synthetic tier: the template of the lower-cased genre, or the       *)
(* default one; three variants of the one segment template, one chord      *)
(* progression and one melody.                                             *)
(***************************************************************************)
TemplateKeyNoLower(genre) == IF genre \in TemplateGenres THEN genre ELSE "default"

TemplateKey(genre) == IF Lower(genre) \in TemplateGenres THEN Lower(genre) ELSE "default"

SyntheticCount(ptype) == IF ptype = "segment" THEN 3 ELSE 1

GenerateSynthetic(genre, ptype) ==
    [i \in 1..SyntheticCount(ptype) |-> DictV(ptype, "synthetic", TemplateKey(genre), "none")]

SyntheticScore == 3

SyntheticPatterns(genre, ptype, top_k) ==
    LET synth == GenerateSynthetic(genre, ptype) IN
    [i \in 1..Min(top_k, Len(synth)) |->
        Pattern(synth[i], SyntheticScore, genre, ptype, "synthetic", "absent",
                Meta(TRUE, genre, ptype, Absent, TRUE), NoId)]

(***************************************************************************)
(* retrieve_similar_patterns, given the answers of the store: the ranked   *)
(* candidates of the direct query (or its failure) and the random sample   *)
(* of the generic query (or its failure).                                  *)
(***************************************************************************)
Fallback(genre, ptype, top_k, sample, randomFails) ==
    LET random == IF randomFails THEN <<>> ELSE RandomPatterns(sample, genre, ptype) IN
    IF random # <<>> THEN random ELSE SyntheticPatterns(genre, ptype, top_k)

RetrieveBodyAlwaysFallback(genre, ptype, top_k, ranked, directFails, sample, randomFails) ==
    [raised |-> ptype \notin Types \/ directFails \/ DirectRaises(ranked, genre, ptype),
     value |-> Fallback(genre, ptype, top_k, sample, randomFails)]

RetrieveBody(genre, ptype, top_k, ranked, directFails, sample, randomFails) ==
    IF ptype \notin Types THEN [raised |-> TRUE, value |-> <<>>]
    ELSE IF directFails THEN [raised |-> TRUE, value |-> <<>>]
    ELSE IF DirectRaises(ranked, genre, ptype) THEN [raised |-> TRUE, value |-> <<>>]
    ELSE LET direct == Trim(DirectPatterns(ranked, genre, ptype), top_k) IN
         [raised |-> FALSE,
          value |-> IF direct # <<>> THEN direct
                    ELSE Fallback(genre, ptype, top_k, sample, randomFails)]

CatchAllPropagates(body) ==
    IF body.raised THEN [outcome |-> "raised", result |-> <<>>]
    ELSE [outcome |-> "returned", result |-> body.value]

CatchAll(body) ==
    IF body.raised THEN [outcome |-> "returned", result |-> <<>>]
    ELSE [outcome |-> "returned", result |-> body.value]

RetrieveSimilarPatterns(genre, ptype, top_k, ranked, directFails, sample, randomFails) ==
    CatchAll(RetrieveBody(genre, ptype, top_k, ranked, directFails, sample, randomFails))

Collection(ptype) == IF ptype \in Types THEN store[ptype] ELSE {}

Call(op, genre, ptype, top_k, ranked, directFails, sample, randomFails) ==
    [op |-> op, genre |-> genre, ptype |-> ptype, top_k |-> top_k, ranked |-> ranked,
     directFails |-> directFails, sample |-> sample, randomFails |-> randomFails]

NoCall == Call("none", "none", "none", 0, <<>>, FALSE, <<>>, FALSE)

Idle == outcome = "none"

(***************************************************************************)
(* The generic query of the random tier runs only when the direct tier     *)
(* returned nothing without raising, and the collection is not empty.      *)
(***************************************************************************)
ReachesFallback(genre, ptype, top_k, ranked, directFails) ==
    /\ ptype \in Types
    /\ ~directFails
    /\ ~DirectRaises(ranked, genre, ptype)
    /\ DirectPatterns(ranked, genre, ptype) = <<>>

Samples(genre, ptype, top_k, ranked, directFails, randomFails) ==
    IF ReachesFallback(genre, ptype, top_k, ranked, directFails) /\ ~randomFails
    THEN InjSeqs(Collection(ptype), SampleSize(top_k, Collection(ptype)))
    ELSE {<<>>}

RetrieveWith(directFails, randomFails) ==
    /\ Idle
    /\ \E genre \in QueryGenres, ptype \in PatternTypes, top_k \in 0..MaxTopK :
        \E ranked \in (IF directFails \/ top_k = 0 THEN {<<>>} ELSE Query(Collection(ptype), 2 * top_k)) :
        \E sample \in Samples(genre, ptype, top_k, ranked, directFails, randomFails) :
        /\ LET r == RetrieveSimilarPatterns(genre, ptype, top_k, ranked, directFails,
                                            sample, randomFails)
           IN result' = r.result /\ outcome' = r.outcome
        /\ last' = Call("retrieve", genre, ptype, top_k, ranked, directFails, sample, randomFails)
        /\ UNCHANGED <<store, runs, executor, synthetic_templates, composer_app>>

Retrieve == RetrieveWith(FALSE, FALSE)

(***************************************************************************)
(* Records put in the collections by other writers of the database         *)
(* directory: a metadata state and a document state each.                  *)
(***************************************************************************)
ForeignV(ptype) == DictV(ptype, "foreign", "none", "none")

ForeignMeta(pd) == Meta(TRUE, "rock", "absent", pd, FALSE)

ForeignKinds(ptype) ==
    {<<NoMeta, Doc(TRUE, TRUE, JsonDumps(ForeignV(ptype)))>>,
     <<ForeignMeta(Absent), Doc(TRUE, TRUE, JsonDumps(ForeignV(ptype)))>>,
     <<ForeignMeta(Absent), PlainDoc>>,
     <<ForeignMeta(Garbage), Doc(TRUE, TRUE, Garbage)>>,
     <<ForeignMeta(JsonDumps(NullV)), NoDoc>>,
     <<ForeignMeta(JsonDumps(ForeignV("other"))), PlainDoc>>,
     <<ForeignMeta(JsonDumps(ForeignV(ptype))), NoDoc>>,
     <<NoMeta, PlainDoc>>}

ForeignAdd ==
    /\ Idle
    /\ \E ptype \in Types : \E kind \in ForeignKinds(ptype) :
         /\ GetCollectionStats(store) < MaxStore
         /\ store' = [store EXCEPT ![ptype] =
                      Add(@, Rec(Id("foreign", ptype, Count(store[ptype]), 0), kind[1], kind[2]))]
    /\ UNCHANGED <<runs, result, outcome, last, executor, synthetic_templates, composer_app>>

(***************************************************************************)
(* The loader (load_tegridy_midi_to_chromadb.py) writes the same three     *)
(* collections: per file at most one segment, one chord progression and    *)
(* one melody, the payload in metadata.pattern_data only, the document a   *)
(* plain description.                                                      *)
(***************************************************************************)
Files == {"a.mid"}

FileGenre(f) == "jazz"

Plural(ptype) ==
    IF ptype = "segment" THEN "segments"
    ELSE IF ptype = "progression" THEN "chord_progressions" ELSE "melodies"

CorpusV(ptype, genre) == DictV(ptype, "corpus", "none", genre)

FormatPatternForChromadb(f, ptype) ==
    Rec(Id(f, Plural(ptype), 0, 0),
        Meta(TRUE, FileGenre(f), Plural(ptype), JsonDumps(CorpusV(ptype, FileGenre(f))), FALSE),
        PlainDoc)

AddPatternsToDb(st, f, has) ==
    [t \in Types |-> IF has[t] THEN Add(st[t], FormatPatternForChromadb(f, t)) ELSE st[t]]

LoaderAdd ==
    /\ Idle
    /\ \E f \in Files, has \in [Types -> BOOLEAN] :
         /\ GetCollectionStats(AddPatternsToDb(store, f, has)) <= MaxStore
         /\ store' = AddPatternsToDb(store, f, has)
    /\ UNCHANGED <<runs, result, outcome, last, executor, synthetic_templates, composer_app>>

(***************************************************************************)
(* index_midi_patterns_from_tegridy.  For each genre the fetcher returns   *)
(* nothing (no file of that genre) or the patterns of the sampled files;   *)
(* with nothing, patterns are adapted from the collections, and failing    *)
(* that, generated from the synthetic templates.  Every pattern is added   *)
(* with its payload both in the document and in metadata.pattern_data.     *)
(***************************************************************************)
Bundles == [Types -> 0..MaxExtracted]

FetchedPatterns(genre, bundle) ==
    [t \in Types |-> [i \in 1..bundle[t] |-> CorpusV(t, genre)]]

AdaptOne(rec, genre) ==
    IF ~rec.meta.some
    THEN (IF ~rec.doc.some THEN [status |-> "raise", pat |-> <<>>]
          ELSE IF rec.doc.marker /\ rec.doc.tail.tag = "json" /\ Truthy(rec.doc.tail.val)
               THEN [status |-> "raise", pat |-> <<>>]
               ELSE [status |-> "skip", pat |-> <<>>])
    ELSE LET r == Recover(rec.meta, rec.doc) IN
         IF r.status = "raise" THEN [status |-> "raise", pat |-> <<>>]
         ELSE IF ~Truthy(r.pd) THEN [status |-> "skip", pat |-> <<>>]
         ELSE IF r.pd.kind # "dict" THEN [status |-> "raise", pat |-> <<>>]
         ELSE [status |-> "ok", pat |-> <<[r.pd EXCEPT !.genre = genre]>>]

RECURSIVE AdaptList(_, _)
AdaptList(sample, genre) ==
    IF sample = <<>> THEN <<>>
    ELSE AdaptOne(Head(sample), genre).pat \o AdaptList(Tail(sample), genre)

AdaptRaises(sample, genre) ==
    \E i \in 1..Len(sample) : AdaptOne(sample[i], genre).status = "raise"

AdaptCount == 2

GetRandomPatternsFromCollection(coll, genre) ==
    {IF AdaptRaises(sample, genre) THEN <<>> ELSE AdaptList(sample, genre) :
        sample \in InjSeqs(coll, Min(AdaptCount, Count(coll)))}

AllSynthetic(genre) == [t \in Types |-> GenerateSynthetic(genre, t)]

GetRandomPatternsForAdaptation(st, genre) ==
    {IF \A t \in Types : p[t] = <<>> THEN AllSynthetic(genre) ELSE p :
        p \in {q \in [Types -> UNION {GetRandomPatternsFromCollection(st[t], genre) : t \in Types}] :
                  \A t \in Types : q[t] \in GetRandomPatternsFromCollection(st[t], genre)}}

VectorizeNoPayload(pd) == PlainDoc

Vectorize(pd) == Doc(TRUE, TRUE, JsonDumps(pd))

IndexedRec(genre, ptype, i, total, pd) ==
    Rec(Id(genre, ptype, i, total), Meta(TRUE, genre, ptype, JsonDumps(pd), FALSE), Vectorize(pd))

(* One record of a run fails at most: its vectorization, the              *)
(* serialization of its payload, or its collection.add call raises.        *)
Stages == {"vectorize", "serialize", "add"}
Failure(genre, ptype, index, stage) == [genre |-> genre, ptype |-> ptype, index |-> index, stage |-> stage]
NoFailure == Failure("none", "none", 0, "none")

StageAt(fails, genre, ptype, index) ==
    IF fails.genre = genre /\ fails.ptype = ptype /\ fails.index = index THEN fails.stage ELSE "none"

(* What happened to one pattern of the run: the id of its record, whether  *)
(* the id was in the collection already, and how its try block ended.      *)
(* The repository pins no chromadb version: collection.add of an id that   *)
(* is already present returns without adding (current releases), or raises *)
(* a duplicate-id error (strict), which the try block of the record        *)
(* catches.                                                                *)
Attempt(id, present, how) == [id |-> id, present |-> present, how |-> how]

Run(coll, total, log) == [coll |-> coll, total |-> total, log |-> log]

RECURSIVE IndexList(_, _, _, _, _, _, _)
IndexList(run, genre, ptype, pats, i, fails, strict) ==
    IF i > Len(pats) THEN run
    ELSE LET rec == IndexedRec(genre, ptype, i - 1, run.total, pats[i])
             present == \E r \in run.coll : r.id = rec.id
             stage == StageAt(fails, genre, ptype, i - 1)
         IN IndexList(
              IF stage = "none" /\ ~(strict /\ present)
              THEN Run(Add(run.coll, rec), run.total + 1, Append(run.log, Attempt(rec.id, present, "added")))
              ELSE IF stage \in {"add", "none"}
                   THEN Run(run.coll, run.total, Append(run.log, Attempt(rec.id, present, "add raised")))
                   ELSE Run(run.coll, run.total, Append(run.log, Attempt(rec.id, present, "no add"))),
              genre, ptype, pats, i + 1, fails, strict)

IndexGenre(st, total, genre, patterns, fails, strict, log) ==
    LET seg == IndexList(Run(st["segment"], total, log), genre, "segment", patterns["segment"], 1, fails, strict)
        prog == IndexList(Run(st["progression"], seg.total, seg.log), genre, "progression",
                          patterns["progression"], 1, fails, strict)
        mel == IndexList(Run(st["melody"], prog.total, prog.log), genre, "melody",
                         patterns["melody"], 1, fails, strict)
    IN [store |-> [t \in Types |-> IF t = "segment" THEN seg.coll
                                   ELSE IF t = "progression" THEN prog.coll ELSE mel.coll],
        total |-> mel.total, log |-> mel.log]

PatternsFor(st, genre, inCache) ==
    IF inCache THEN {FetchedPatterns(genre, b) : b \in Bundles}
    ELSE GetRandomPatternsForAdaptation(st, genre)

RECURSIVE IndexFrom(_, _, _, _, _, _, _)
IndexFrom(st, total, genres, cache, fails, strict, log) ==
    IF genres = <<>> THEN {[store |-> st, total |-> total, log |-> log]}
    ELSE UNION {IndexFrom(o.store, o.total, Tail(genres), cache, fails, strict, o.log) :
                  o \in {IndexGenre(st, total, Head(genres), p, fails, strict, log) :
                            p \in PatternsFor(st, Head(genres), Head(genres) \in cache)}}

IndexMidiPatternsFromTegridy(st, genres, cache, fails, strict) ==
    IndexFrom(st, 0, genres, cache, fails, strict, <<>>)

SeedSet == {SeedGenres[i] : i \in 1..Len(SeedGenres)}

(***************************************************************************)
(* initialize_midi_rag_database(force_reindex): with patterns in the store *)
(* and no force_reindex the stats are returned at once; otherwise the seed *)
(* genres are indexed and the stats after the run are returned.            *)
(***************************************************************************)
Stats(st) ==
    [segments |-> Count(st["segment"]), progressions |-> Count(st["progression"]),
     melodies |-> Count(st["melody"]), total |-> GetCollectionStats(st)]

InitCall(force, total, fails, log, returned) ==
    [op |-> "initialize", force_reindex |-> force, total_patterns |-> total,
     fails |-> fails, log |-> log, total_new_patterns |-> returned]

FailureChoices(failing) ==
    IF failing
    THEN {Failure(g, t, i, sg) : g \in SeedSet, t \in Types,
                                 i \in 0..(SyntheticCount("segment") - 1), sg \in Stages}
    ELSE {NoFailure}

SkipsIndexingNever(total, force) == FALSE

SkipsIndexing(total, force) == total > 0 /\ ~force

InitializeWith(failing, strict) ==
    /\ Idle
    /\ \E force \in BOOLEAN, cache \in SUBSET SeedSet, fails \in FailureChoices(failing) :
         IF SkipsIndexing(Stats(store).total, force)
         THEN /\ ~failing /\ ~strict
              /\ last' = InitCall(force, Stats(store).total, fails, <<>>, 0)
              /\ UNCHANGED <<store, runs>>
         ELSE /\ runs < MaxRuns
              /\ \E o \in IndexMidiPatternsFromTegridy(store, SeedGenres, cache, fails, strict) :
                    /\ GetCollectionStats(o.store) <= MaxIndexed
                    /\ store' = o.store
                    /\ last' = InitCall(force, Stats(store).total, fails, o.log, o.total)
              /\ runs' = runs + 1
    /\ result' = <<Stats(store')>>
    /\ outcome' = "returned"
    /\ UNCHANGED <<executor, synthetic_templates, composer_app>>

InitializeMidiRagDatabase == InitializeWith(FALSE, FALSE)

(* The loader's thread pool: the files not yet taken by a thread, in the   *)
(* order they were submitted, and each thread's position.  There is no     *)
(* pool outside process_directory.                                         *)
NoPool == [files |-> <<>>, queue |-> <<>>, thread |-> <<>>]

(* The template table of _init_synthetic_patterns: for each genre the      *)
(* velocities of the notes of each instrument of its one segment, and its  *)
(* chord-progression and melody templates.                                 *)
Inst(name, velocities) == [name |-> name, velocities |-> velocities]

TemplateSegment(key) ==
    IF key = "pop" THEN <<Inst("piano", <<80, 75, 70, 75>>), Inst("bass", <<90, 85, 90, 85>>)>>
    ELSE IF key = "rock" THEN <<Inst("electric_guitar", <<100, 95, 100, 95>>), Inst("bass", <<95, 90, 95, 90>>)>>
    ELSE IF key = "classical" THEN <<Inst("piano", <<80, 75, 85, 80>>), Inst("violin", <<75, 80, 75>>)>>
    ELSE IF key = "jazz" THEN <<Inst("piano", <<70, 75, 70, 80>>), Inst("bass", <<90, 85, 90, 85>>)>>
    ELSE <<Inst("piano", <<80, 75, 70, 75>>)>>

Template(key, kind) == [template |-> key, kind |-> kind]

HandAuthored ==
    [key \in TemplateGenres \cup {"default"} |->
       [segments |-> <<[instruments |-> TemplateSegment(key)]>>,
        chord_progressions |-> <<Template(key, "chords")>>,
        melody_sequences |-> <<Template(key, "melody")>>]]

(* The compiled composer graph before composer_app.invoke is called.       *)
NotInvoked ==
    [status |-> "idle", state |-> [instruments |-> <<>>, vocals |-> FALSE],
     tasks |-> {}, started |-> {}, finished |-> {}, trace |-> <<>>]

Init ==
    /\ store = [t \in Types |-> {}]
    /\ runs = 0
    /\ result = <<>>
    /\ outcome = "none"
    /\ last = NoCall
    /\ executor = NoPool
    /\ synthetic_templates = HandAuthored
    /\ composer_app = NotInvoked

(***************************************************************************)
(* The caller takes the returned list; the next call starts afresh.        *)
(***************************************************************************)
Consume ==
    /\ ~Idle
    /\ result' = <<>>
    /\ outcome' = "none"
    /\ last' = NoCall
    /\ UNCHANGED <<store, runs, executor, synthetic_templates, composer_app>>

Next == Retrieve \/ Consume \/ ForeignAdd \/ LoaderAdd

Spec == Init /\ [][Next]_vars

NextIndex == Retrieve \/ Consume \/ InitializeMidiRagDatabase

SpecIndex == Init /\ [][NextIndex]_vars

(***************************************************************************)
(* Indexing runs in which one record may fail, on either kind of chromadb. *)
(***************************************************************************)
InitializeRecordFails == InitializeWith(TRUE, FALSE)

InitializeStrict == InitializeWith(FALSE, TRUE)

InitializeStrictRecordFails == InitializeWith(TRUE, TRUE)

NextReindex ==
    \/ InitializeMidiRagDatabase
    \/ InitializeRecordFails
    \/ InitializeStrict
    \/ InitializeStrictRecordFails
    \/ Consume

SpecReindex == Init /\ [][NextReindex]_vars

(***************************************************************************)
(* The same calls against a store whose query raises: the similarity query *)
(* of the direct tier, or the generic query of the random tier.            *)
(***************************************************************************)
RetrieveDirectQueryFails == RetrieveWith(TRUE, FALSE)

RetrieveRandomQueryFails == RetrieveWith(FALSE, TRUE)

NextFault == Next \/ RetrieveDirectQueryFails \/ RetrieveRandomQueryFails

SpecFault == Init /\ [][NextFault]_vars

(***************************************************************************)
(* Properties of retrieve_similar_patterns.                                *)
(***************************************************************************)
Returned == outcome = "returned" /\ last.op = "retrieve"

KnownCall == Returned /\ last.ptype \in Types

Results == {result[i] : i \in 1..Len(result)}

Candidates == {last.ranked[i].rec : i \in 1..Len(last.ranked)}

Recoverable(rec) ==
    /\ Recover(rec.meta, rec.doc).status = "ok"
    /\ Truthy(Recover(rec.meta, rec.doc).pd)

ValidRecord(rec, ptype) ==
    /\ Recoverable(rec)
    /\ IsValid(ptype, Recover(rec.meta, rec.doc).pd)
    /\ rec.doc.some

NoPayload(rec, ptype) ==
    /\ ~(rec.meta.some /\ rec.meta.pd.tag = "json" /\ IsValid(ptype, rec.meta.pd.val))
    /\ ~(rec.doc.some /\ rec.doc.marker /\ rec.doc.tail.tag = "json"
          /\ IsValid(ptype, rec.doc.tail.val))

IsAdapted(p) == p.original_genre # "absent"

StoredGenres == {r.meta.genre : r \in UNION {store[t] : t \in Types}}

\* C1: if the collection of the requested type holds at least one record, a call
\* with top_k >= 1 returns a non-empty list.
C1_NonEmptyWhenCollectionHasData ==
    (KnownCall /\ last.top_k >= 1 /\ store[last.ptype] # {}) => result # <<>>

\* C2: every returned pattern, whichever tier produced it, has a pattern_data that
\* is a mapping holding the key the requested type requires.
C2_ReturnedShapeIsValid ==
    KnownCall => \A p \in Results : IsValid(last.ptype, p.pattern_data)

\* C3: the returned list has at most top_k elements, for every top_k >= 0 and
\* every store content, whichever tier produced it.
C3_AtMostTopK ==
    Returned => Len(result) <= last.top_k

C3_Witness ==
    /\ KnownCall
    /\ last.top_k = 1
    /\ Cardinality({r \in Candidates : ValidRecord(r, last.ptype)}) = 2
    /\ Len(result) = 1

\* C4: with no record of the requested genre in the store and at least top_k
\* valid records of other genres in the collection, the call returns exactly
\* top_k results, all adapted by the random tier (requested genre, score 0.5).
C4_UnknownGenreIsRandomAdapted ==
    (/\ KnownCall
     /\ last.top_k >= 1
     /\ Lower(last.genre) \notin StoredGenres
     /\ Cardinality({r \in store[last.ptype] : ValidRecord(r, last.ptype)}) >= last.top_k)
    => (/\ Len(result) = last.top_k
        /\ \A p \in Results : IsAdapted(p) /\ p.genre = last.genre /\ p.similarity_score = 5)

\* C5: every result of the random-adaptation tier carries data_source
\* "random_adapted", the requested genre, the stored record's genre as
\* original_genre, and similarity_score 0.5.
C5_RandomAdaptedTag ==
    KnownCall =>
        \A p \in Results : IsAdapted(p) =>
            /\ p.data_source = "random_adapted"
            /\ p.genre = last.genre
            /\ \E r \in store[last.ptype] :
                  r.id = p.id /\ p.original_genre = MetaGet(r.meta, "genre", "unknown")
            /\ p.similarity_score = 5

\* C6: with all three collections empty and top_k >= 1, the call returns at least
\* one pattern; each is tagged "synthetic" with score 0.3, has the shape of the
\* requested type and is built from the template of the lower-cased genre, or
\* from the default template when that is not pop, rock, classical or jazz.
C6_SyntheticFloor ==
    (KnownCall /\ last.top_k >= 1 /\ \A t \in Types : store[t] = {}) =>
        /\ Len(result) >= 1
        /\ \A p \in Results :
              /\ p.data_source = "synthetic"
              /\ p.similarity_score = 3
              /\ p.pattern_data.kind = "dict"
              /\ p.pattern_data.shape = last.ptype
              /\ p.pattern_data.origin = "synthetic"
              /\ p.pattern_data.tmpl =
                    (IF Lower(last.genre) \in {"pop", "rock", "classical", "jazz"}
                     THEN Lower(last.genre) ELSE "default")

C6_Witness ==
    /\ KnownCall
    /\ \A t \in Types : store[t] = {}
    /\ last.genre = "Rock"
    /\ last.ptype = "segment"
    /\ last.top_k = 2
    /\ Len(result) = 2
    /\ result[1].pattern_data.tmpl = "rock"

\* C7: if the collection of the requested type holds at least one record with a
\* recoverable payload, no returned pattern is tagged "synthetic".
C7_SyntheticOnlyWhenEmpty ==
    (KnownCall /\ \E r \in store[last.ptype] : Recoverable(r)) =>
        \A p \in Results : p.data_source # "synthetic"

\* C8: every returned pattern whose payload comes from the synthetic template
\* table is tagged "synthetic" with score 0.3, after any sequence of
\* initialisations and retrievals; it is never a direct match.
C8_SyntheticPayloadIsTagged ==
    Returned =>
        \A p \in Results : p.pattern_data.origin = "synthetic" =>
            p.data_source = "synthetic" /\ p.similarity_score = 3

\* C9: the call never raises; when the store query of the requested collection
\* (the similarity query of the direct tier) or the processing of its results
\* raises, or the pattern type is not segment, progression or melody, it
\* returns the empty list.
C9_NeverRaises ==
    last.op = "retrieve" =>
        /\ outcome = "returned"
        /\ (\/ last.ptype \notin Types
            \/ last.directFails
            \/ DirectRaises(last.ranked, last.genre, last.ptype)) => result = <<>>

C9_Witness ==
    /\ KnownCall
    /\ ~last.directFails
    /\ DirectRaises(last.ranked, last.genre, last.ptype)
    /\ \E r \in Candidates : ValidRecord(r, last.ptype)
    /\ result = <<>>

\* C10: a candidate without a valid payload in its metadata and in its document
\* is skipped alone: the other candidates of the same result that have a valid
\* payload are still returned, up to top_k.
C10_BadCandidateSkippedAlone ==
    LET valid == {r \in Candidates : ValidRecord(r, last.ptype)} IN
    (KnownCall /\ valid # {} /\ \E r \in Candidates : NoPayload(r, last.ptype)) =>
        /\ \A p \in Results : p.id \in {r.id : r \in valid}
        /\ Len(result) = Min(last.top_k, Cardinality(valid))

(***************************************************************************)
(* Recovery paths, taken separately.                                       *)
(***************************************************************************)
FromDocument(doc) ==
    IF doc.some /\ doc.marker /\ doc.tail.tag = "json"
    THEN [pd |-> doc.tail.val, src |-> "document"]
    ELSE [pd |-> EmptyDictV, src |-> "none"]

UsableMetadata(rec) == rec.meta.some /\ Truthy(FromMetadata(rec.meta).pd)

IsDirect(p) == p.data_source \in {"metadata", "document"} /\ ~IsAdapted(p)

\* C11: pattern_data is recovered from metadata.pattern_data when present and
\* otherwise from the JSON after the ==PATTERN_DATA== marker of the document; a
\* candidate with a valid payload in its document text and no usable metadata
\* is still returned (up to top_k), with data_source "document".
C11_DocumentRecovery ==
    KnownCall =>
        \A r \in Candidates :
            (~UsableMetadata(r) /\ IsValid(last.ptype, FromDocument(r.doc).pd)) =>
                \/ \E p \in Results : /\ p.id = r.id
                                      /\ p.data_source = "document"
                                      /\ p.pattern_data = FromDocument(r.doc).pd
                \/ Len(result) = last.top_k /\ \A p \in Results : IsDirect(p)

(***************************************************************************)
(* Payloads that a pattern handed to the indexer can be, and the records   *)
(* that index_midi_patterns_from_tegridy wrote (their ids start with the   *)
(* genre of the run).                                                      *)
(***************************************************************************)
Payloads ==
    {DictV(sh, o, t, g) : sh \in Types \cup {"other"},
                          o \in {"corpus", "synthetic", "foreign"},
                          t \in TemplateGenres \cup {"default", "none"},
                          g \in SeedSet \cup {"jazz", "rock", "none"}}

IndexWritten(r) == r.id.a \in SeedSet

WithoutMetadataPayload(meta) == [meta EXCEPT !.pd = Absent]

RepositoryWritten(r) == r.id.a # "foreign"

\* C13: every record added to a collection by an indexing path of the
\* repository carries its payload twice: the JSON after the ==PATTERN_DATA==
\* marker of its document equals the JSON of its metadata.pattern_data.
C13_PayloadStoredTwice ==
    \A t \in Types : \A r \in store[t] :
        RepositoryWritten(r) =>
            /\ r.meta.some /\ r.meta.pd.tag = "json"
            /\ r.doc.some /\ r.doc.marker
            /\ r.doc.tail = r.meta.pd

\* C14: when the direct query yields at least one candidate with a recoverable,
\* shape-valid payload, only direct matches are returned: no fallback tier runs,
\* every result has data_source "metadata" or "document", the genre of the
\* stored record and a pattern_data of the requested shape.
C14_DirectOnly ==
    (KnownCall /\ \E r \in Candidates : ValidRecord(r, last.ptype)) =>
        \A p \in Results :
            /\ IsDirect(p)
            /\ IsValid(last.ptype, p.pattern_data)
            /\ \E r \in Candidates : /\ r.id = p.id
                                     /\ ValidRecord(r, last.ptype)
                                     /\ r.meta.genre # "absent" => p.genre = r.meta.genre

C14_Witness ==
    /\ KnownCall
    /\ \E r \in Candidates : ValidRecord(r, last.ptype)
    /\ \E r \in Candidates : ~ValidRecord(r, last.ptype)
    /\ Len(result) = 1
    /\ result[1].data_source = "metadata"
    /\ result[1].genre = "jazz"

IsValidCandidate(c) == ValidRecord(c.rec, last.ptype)

ValidCandidates == SelectSeq(last.ranked, IsValidCandidate)

\* C15: the direct-match list returned is exactly the first top_k shape-valid
\* candidates of the store's ranked result, in the store's order: invalid
\* candidates do not count toward top_k and a valid candidate is never dropped
\* in favour of a lower-ranked one.
C15_FirstValidInOrder ==
    (KnownCall /\ \E p \in Results : IsDirect(p)) =>
        /\ Len(result) = Min(last.top_k, Len(ValidCandidates))
        /\ \A i \in 1..Len(result) :
              /\ result[i].id = ValidCandidates[i].rec.id
              /\ result[i].pattern_data =
                    Recover(ValidCandidates[i].rec.meta, ValidCandidates[i].rec.doc).pd

C15_Witness ==
    /\ KnownCall
    /\ last.top_k = 1
    /\ Len(last.ranked) = 2
    /\ ~IsValidCandidate(last.ranked[1])
    /\ IsValidCandidate(last.ranked[2])
    /\ Len(result) = 1
    /\ result[1].id = last.ranked[2].rec.id

\* C16: every returned pattern has a similarity_score within [0, 1]; for a
\* direct match it is 1 - distance of that candidate as reported by the store.
C16_ScoreInUnitRange ==
    KnownCall =>
        \A p \in Results :
            /\ 0 <= p.similarity_score /\ p.similarity_score <= 10
            /\ IsDirect(p) =>
                  \E i \in 1..Len(last.ranked) :
                      /\ last.ranked[i].rec.id = p.id
                      /\ p.similarity_score = 10 - last.ranked[i].dist

\* C17: the similarity_score orders the tiers: every direct match scores
\* strictly above the 0.5 of random-adapted results, which is above the 0.3 of
\* synthetic results.
C17_TiersOrderedByScore ==
    KnownCall =>
        \A p \in Results :
            /\ IsDirect(p) => p.similarity_score > 5
            /\ IsAdapted(p) => p.similarity_score = 5
            /\ p.data_source = "synthetic" => p.similarity_score = 3 /\ 3 < 5

MaxNotes == 3
MaxOver == 1

Range(s) == {s[i] : i \in 1..Len(s)}

Pitches == {60, 64, 67, 72}
Spans == {<<0, 2>>, <<0, 3>>, <<2, 3>>, <<4, 6>>}
Notes == {[pitch |-> p, start |-> sp[1], end |-> sp[2]] : p \in Pitches, sp \in Spans}

AcousticGrandPiano == 0
AcousticBass == 32
ElectricBassFinger == 33
Flute == 73

ProgramToInstrumentName(program) ==
    IF program = AcousticGrandPiano THEN {"acoustic", "grand", "piano"}
    ELSE IF program = AcousticBass THEN {"acoustic", "bass"}
    ELSE IF program = Flute THEN {"flute"}
    ELSE {"electric", "bass", "finger"}

NormalizeInstrumentName(inst) ==
    LET name == ProgramToInstrumentName(inst.program) IN
    IF inst.is_drum THEN "drums"
    ELSE IF name \cap {"piano", "grand", "bright", "honky"} # {} THEN "piano"
    ELSE IF name \cap {"guitar", "acoustic"} # {} THEN "acoustic_guitar"
    ELSE IF {"electric", "guitar"} \subseteq name THEN "electric_guitar"
    ELSE IF name \cap {"bass"} # {} THEN "bass"
    ELSE IF name \cap {"violin", "viola", "cello", "contrabass", "string"} # {} THEN "strings"
    ELSE IF name \cap {"trumpet", "trombone", "tuba", "brass", "horn"} # {} THEN "brass"
    ELSE IF name \cap {"sax", "clarinet", "flute", "piccolo", "oboe", "wind"} # {} THEN "woodwinds"
    ELSE IF name \cap {"synth"} # {} THEN "synth"
    ELSE IF name \cap {"organ"} # {} THEN "organ"
    ELSE "other"

Instrument(program, is_drum, notes) == [program |-> program, is_drum |-> is_drum, notes |-> notes]

Midi(parses, instruments) == [parses |-> parses, instruments |-> instruments]

MaxEnd(notes) ==
    LET ends == {n.end : n \in notes}
    IN IF ends = {} THEN 0 ELSE CHOOSE e \in ends : \A f \in ends : f <= e

AllNotes(instruments) == UNION {Range(instruments[i].notes) : i \in 1..Len(instruments)}

GetEndTime(midi) == MaxEnd(AllNotes(midi.instruments))

MinEndTime == 5
MinSegmentNotes == 5
MinMelodyNotes == 10
ChordStep == 2
MinChordNotes == 3
HighPitch == 60
MaxMelodyNotes == 50
MaxSegmentNotes == 100

ChordCategories == {"piano", "acoustic_guitar", "electric_guitar", "organ", "synth"}
MelodyCategories == {"piano", "woodwinds", "brass", "strings", "synth"}

ChordInstruments(instruments) ==
    {i \in 1..Len(instruments) : NormalizeInstrumentName(instruments[i]) \in ChordCategories}

ActivePitches(instruments, chosen, t) ==
    {n.pitch % 12 : n \in {m \in UNION {Range(instruments[i].notes) : i \in chosen} :
                                m.start <= t /\ t < m.end}}

Chord(pitches, t) == [pitches |-> pitches, duration |-> ChordStep, time |-> t]

RECURSIVE SampleChords(_, _, _, _, _)
SampleChords(instruments, chosen, t, end_time, min_notes) ==
    IF t < end_time
    THEN LET active == ActivePitches(instruments, chosen, t)
         IN (IF Cardinality(active) >= min_notes THEN <<Chord(active, t)>> ELSE <<>>)
              \o SampleChords(instruments, chosen, t + ChordStep, end_time, min_notes)
    ELSE <<>>

ExtractChordProgression(midi) ==
    LET chosen == ChordInstruments(midi.instruments)
    IN IF chosen = {} THEN <<>>
       ELSE SampleChords(midi.instruments, chosen, 0, GetEndTime(midi), MinChordNotes)

HighNotes(inst) == Cardinality({i \in 1..Len(inst.notes) : inst.notes[i].pitch > HighPitch})

(* sorted(notes, key=lambda x: x.start): a stable sort, so a note comes    *)
(* after the notes that start earlier and after those of the same start    *)
(* that precede it in the file.                                            *)
SortedByStart(notes) ==
    LET n == Len(notes)
        before == [i \in 1..n |->
                     Cardinality({j \in 1..n : \/ notes[j].start < notes[i].start
                                               \/ (notes[j].start = notes[i].start /\ j < i)})]
    IN [k \in 1..n |-> notes[CHOOSE i \in 1..n : before[i] = k - 1]]

First(s, n) == SubSeq(s, 1, Min(n, Len(s)))

(* max(melody_instruments, key=...): the first instrument of the list      *)
(* among those with the largest key.                                       *)
LeadFirst(insts, pool) == CHOOSE i \in pool : \A j \in pool : i <= j

Lead(insts, pool) ==
    CHOOSE i \in pool :
        \A j \in pool : \/ HighNotes(insts[j]) < HighNotes(insts[i])
                         \/ (HighNotes(insts[j]) = HighNotes(insts[i]) /\ i <= j)

Melody(inst) ==
    LET notes == First(SortedByStart(inst.notes), MaxMelodyNotes)
    IN [intervals |-> [i \in 1..(Len(notes) - 1) |-> notes[i + 1].pitch - notes[i].pitch],
        start_pitch |-> notes[1].pitch,
        instrument_name |-> NormalizeInstrumentName(inst)]

ExtractMelodyPattern(midi) ==
    LET insts == midi.instruments
        enough == {i \in 1..Len(insts) : Len(insts[i].notes) >= MinMelodyNotes}
        family == {i \in enough : NormalizeInstrumentName(insts[i]) \in MelodyCategories}
        pool == IF family # {} THEN family ELSE enough
    IN IF insts = <<>> \/ pool = {} THEN <<>>
       ELSE LET lead_instrument == insts[Lead(insts, pool)]
            IN IF lead_instrument.notes = <<>> THEN <<>> ELSE <<Melody(lead_instrument)>>

NoteRow(n) == [pitch |-> n.pitch, start |-> n.start, duration |-> n.end - n.start]

AllNotesOfInstrument(instrument, max_notes) ==
    [i \in 1..Len(instrument.notes) |-> NoteRow(instrument.notes[i])]

ExtractNotesFromInstrument(instrument, max_notes) ==
    [i \in 1..Min(max_notes, Len(instrument.notes)) |-> NoteRow(instrument.notes[i])]

Track(inst) ==
    [name |-> NormalizeInstrumentName(inst), program |-> inst.program,
     is_drum |-> inst.is_drum, notes |-> ExtractNotesFromInstrument(inst, MaxSegmentNotes)]

KeepsInstrument(inst) ==
    Len(inst.notes) >= MinSegmentNotes /\ ExtractNotesFromInstrument(inst, MaxSegmentNotes) # <<>>

Segment(midi) ==
    LET kept == SelectSeq(midi.instruments, KeepsInstrument)
    IN [instruments |-> [i \in 1..Len(kept) |-> Track(kept[i])], duration |-> GetEndTime(midi)]

CountOf(list) == IF list # <<>> THEN 1 ELSE 0

(* The value extract_patterns_from_midi returns: shape tells a single dict *)
(* from a (patterns, pattern_counts) pair, filled tells {} from a dict     *)
(* that has its keys.                                                      *)
Returns(shape, filled, segments, chords, melodies) ==
    [shape |-> shape, filled |-> filled,
     segments |-> segments, chord_progressions |-> chords, melodies |-> melodies,
     counts |-> [segments |-> CountOf(segments), chord_progressions |-> CountOf(chords),
                 melodies |-> CountOf(melodies)]]

EmptyPair == Returns("pair", FALSE, <<>>, <<>>, <<>>)
EmptyDict == Returns("dict", FALSE, <<>>, <<>>, <<>>)

ExtractPatternsFromMidi(midi) ==
    IF ~midi.parses THEN EmptyPair
    ELSE IF midi.instruments = <<>> \/ GetEndTime(midi) < MinEndTime THEN EmptyDict
    ELSE LET segment == Segment(midi)
             chord_progression == ExtractChordProgression(midi)
         IN Returns("pair", TRUE,
                    IF segment.instruments # <<>> THEN <<segment>> ELSE <<>>,
                    IF chord_progression # <<>> THEN <<[chords |-> chord_progression]>> ELSE <<>>,
                    ExtractMelodyPattern(midi))

(* patterns, pattern_counts = extract_patterns_from_midi(midi_file) *)
Unpack(ret) == IF ret.shape = "pair" THEN "ok" ELSE "ValueError"

NoteSets == {S \in SUBSET Notes : Cardinality(S) <= MaxNotes}
SeqOf(S) == CHOOSE s \in [1..Cardinality(S) -> S] : Range(s) = S
BassNote == [pitch |-> 43, start |-> 0, end |-> 6]
Piano(notes) == Instrument(AcousticGrandPiano, FALSE, notes)

(* Files for the chord sampling: a piano track of a few notes, alone or    *)
(* with one long bass or drum note.                                        *)
ChordFiles ==
    {Midi(TRUE, <<Piano(SeqOf(S))>>) : S \in NoteSets}
      \cup {Midi(TRUE, <<Piano(SeqOf(S)), Instrument(p, d, <<BassNote>>)>>) :
               S \in NoteSets, p \in {AcousticBass, ElectricBassFinger}, d \in BOOLEAN}

(* Longer tracks: one note a second, written to the file in time order or  *)
(* backwards, on a phrase that stays above pitch 60, stays below it or     *)
(* crosses it.  The lengths sit on both sides of every threshold.          *)
Phrases == {"high", "low", "rising"}
Orders == {"forward", "backward"}

PitchAt(phrase, t) ==
    IF phrase = "high" THEN 61 + 2 * (t % 4)
    ELSE IF phrase = "low" THEN 48 + 3 * (t % 3)
    ELSE 55 + (t % 8)

Line(n, phrase, order) ==
    [i \in 1..n |->
       LET t == IF order = "forward" THEN i - 1 ELSE n - i
       IN [pitch |-> PitchAt(phrase, t), start |-> t, end |-> t + 1]]

LeadLengths ==
    {MinSegmentNotes - 1, MinSegmentNotes, MinMelodyNotes - 1, MinMelodyNotes,
     MaxMelodyNotes, MaxMelodyNotes + 1}
SecondLengths == {MinMelodyNotes - 1, MinMelodyNotes, MinMelodyNotes + 1}
LongLengths == {MaxSegmentNotes, MaxSegmentNotes + MaxOver}

LeadTracks ==
    {Piano(Line(n, ph, o)) : n \in LeadLengths, ph \in Phrases, o \in Orders}
SecondTracks ==
    {Instrument(p, FALSE, Line(n, ph, "forward")) :
       p \in {Flute, ElectricBassFinger}, n \in SecondLengths, ph \in Phrases}
LongTracks == {Piano(Line(n, "rising", o)) : n \in LongLengths, o \in Orders}

LineFiles ==
    {Midi(TRUE, <<a>>) : a \in LeadTracks \cup SecondTracks \cup LongTracks}
      \cup {Midi(TRUE, <<a, b>>) : a \in LeadTracks, b \in SecondTracks}
      \cup {Midi(TRUE, <<b, a>>) : a \in LeadTracks, b \in SecondTracks}
      \cup {Midi(TRUE, <<a, Instrument(Flute, FALSE, Line(MinSegmentNotes, "low", "forward"))>>) :
               a \in LongTracks}

MidiFiles == {Midi(FALSE, <<>>), Midi(TRUE, <<>>)} \cup ChordFiles \cup LineFiles

ExtractCall(midi) == [op |-> "extract", midi |-> midi]

ExtractFile ==
    /\ Idle
    /\ \E midi \in MidiFiles :
         /\ result' = <<ExtractPatternsFromMidi(midi)>>
         /\ last' = ExtractCall(midi)
    /\ outcome' = "returned"
    /\ UNCHANGED <<store, runs, executor, synthetic_templates, composer_app>>

NextExtract == ExtractFile \/ Consume

SpecExtract == Init /\ [][NextExtract]_vars

Unusable(midi) == ~midi.parses \/ midi.instruments = <<>> \/ GetEndTime(midi) < MinEndTime

(* C19: extract_patterns_from_midi returns the pair ({}, {}) for every     *)
(* file that cannot be parsed, has no instruments or lasts less than 5     *)
(* seconds, so that a caller can unpack the result into two values.        *)
C19_EmptyPairWhenUnusable ==
    (last.op = "extract" /\ outcome = "returned" /\ Unusable(last.midi)) =>
        (result[1] = EmptyPair /\ Unpack(result[1]) = "ok")

(* An instrument is a piano, a guitar, an organ or a synth when it is not  *)
(* a drum kit and its General MIDI name says so.                           *)
HarmonyCapable(inst) ==
    ~inst.is_drum /\ ProgramToInstrumentName(inst.program) \cap {"piano", "guitar", "organ", "synth"} # {}

Sounding(midi, t) ==
    ActivePitches(midi.instruments,
                  {i \in 1..Len(midi.instruments) : HarmonyCapable(midi.instruments[i])}, t)

Instants(midi) == {t \in 0..(GetEndTime(midi) - 1) : t % ChordStep = 0}

EmittedChords(ret) ==
    IF ret.chord_progressions = <<>> THEN <<>> ELSE ret.chord_progressions[1].chords

(* C20: extract_chord_progression samples the instants 0, 2, 4, ... below  *)
(* the end time and emits a chord record for an instant exactly when at    *)
(* least 3 distinct pitch classes of piano, guitar, organ or synth         *)
(* instruments sound at it; every emitted chord lists at least 3 distinct  *)
(* pitch classes in 0..11.                                                 *)
C20_ChordExactlyWhenThreeClasses ==
    (last.op = "extract" /\ outcome = "returned" /\ result[1].filled) =>
        LET chords == EmittedChords(result[1])
        IN /\ \A t \in Instants(last.midi) :
                 (\E i \in 1..Len(chords) : chords[i].time = t)
                    <=> Cardinality(Sounding(last.midi, t)) >= MinChordNotes
           /\ \A i \in 1..Len(chords) :
                 /\ chords[i].time \in Instants(last.midi)
                 /\ chords[i].pitches \subseteq 0..11
                 /\ Cardinality(chords[i].pitches) >= MinChordNotes

Extracted == last.op = "extract" /\ outcome = "returned" /\ result[1].filled

NotesAbove(inst, pitch) == Cardinality({i \in 1..Len(inst.notes) : inst.notes[i].pitch > pitch})

MelodyCandidates(insts) ==
    LET qualified == {i \in 1..Len(insts) : Len(insts[i].notes) >= MinMelodyNotes}
        melodic == {i \in qualified : NormalizeInstrumentName(insts[i]) \in MelodyCategories}
    IN IF melodic # {} THEN melodic ELSE qualified

(* The first notes of an instrument in start-time order; the tracks of     *)
(* MidiFiles have no two notes of the same start.                          *)
InStartOrder(notes, limit) ==
    LET earlier == [i \in 1..Len(notes) |->
                      Cardinality({j \in 1..Len(notes) : notes[j].start < notes[i].start})]
    IN [k \in 1..Min(limit, Len(notes)) |-> notes[CHOOSE i \in 1..Len(notes) : earlier[i] = k - 1]]

RecordsMelodyOf(melody, inst) ==
    LET ordered == InStartOrder(inst.notes, MaxMelodyNotes)
        upto[k \in 0..Len(melody.intervals)] ==
            IF k = 0 THEN melody.start_pitch ELSE upto[k - 1] + melody.intervals[k]
    IN /\ Len(melody.intervals) = Len(ordered) - 1
       /\ Len(melody.intervals) <= MaxMelodyNotes - 1
       /\ \A k \in 0..Len(melody.intervals) : upto[k] = ordered[k + 1].pitch

C22_SegmentTracksCapped ==
    (Extracted /\ result[1].segments # <<>>) =>
        LET insts == last.midi.instruments
            tracks == result[1].segments[1].instruments
        IN \A k \in 1..Len(tracks) :
             \E i \in 1..Len(insts) :
                /\ Len(insts[i].notes) >= MinSegmentNotes
                /\ tracks[k].program = insts[i].program
                /\ tracks[k].is_drum = insts[i].is_drum
                /\ Len(tracks[k].notes) <= MaxSegmentNotes
                /\ Len(tracks[k].notes) = Min(MaxSegmentNotes, Len(insts[i].notes))
                /\ \A j \in 1..Len(tracks[k].notes) :
                      tracks[k].notes[j] = [pitch |-> insts[i].notes[j].pitch,
                                            start |-> insts[i].notes[j].start,
                                            duration |-> insts[i].notes[j].end - insts[i].notes[j].start]

C22_Witness ==
    /\ Extracted
    /\ Len(last.midi.instruments) = 2
    /\ Len(last.midi.instruments[1].notes) > MaxSegmentNotes
    /\ result[1].segments # <<>>
    /\ Len(result[1].segments[1].instruments) = 2
    /\ Len(result[1].segments[1].instruments[1].notes) = MaxSegmentNotes
    /\ Len(result[1].segments[1].instruments[2].notes) = MinSegmentNotes

(***************************************************************************)
(* detect_genre_from_path.  A path is its list of lower-cased segments,    *)
(* the last one the file name (segment plus ".mid").  Inside(segment) is   *)
(* the set of patterns and keywords of the two tables, and of the words    *)
(* the known-dataset rules look for, that occur in the segment as          *)
(* substrings.  The tables keep the order of the dictionaries.             *)
(***************************************************************************)
MaxDepth == 4

Segments == {"song", "jazz", "Rock", "piano", "bach", "tegridy-jazz", "tegridy-melodies", "beautiful-music"}

Inside(segment) ==
    IF segment = "jazz" THEN {"jazz"}
    ELSE IF segment = "rock" THEN {"rock"}
    ELSE IF segment = "piano" THEN {"piano"}
    ELSE IF segment = "bach" THEN {"bach"}
    ELSE IF segment = "tegridy-jazz" THEN {"tegridy-jazz", "tegridy", "jazz"}
    ELSE IF segment = "tegridy-melodies" THEN {"tegridy", "melodies"}
    ELSE IF segment = "beautiful-music" THEN {"beautiful", "music"}
    ELSE {}

Entry(genre, words) == [genre |-> genre, words |-> words]

tegridy_specific_genres ==
    << Entry("classical", <<"classical-piano-strings", "piano", "tegridy-piano">>),
       Entry("jazz", <<"tegridy-jazz", "jazz-collection">>),
       Entry("rock", <<"rock-collection", "tegridy-rock">>),
       Entry("pop", <<"tegridy-pop", "pop-collection">>),
       Entry("ambient", <<"ambient", "relax-in-tegridy">>),
       Entry("children", <<"tegridy-children", "children-songs">>),
       Entry("anime", <<"beautiful-anime", "anime-masterpieces">>),
       Entry("film", <<"gothic-horror-movies", "soundtrack">>) >>

genre_keywords ==
    << Entry("classical", <<"classical", "baroque", "romantic", "piano", "mozart", "beethoven", "bach", "chopin", "strings">>),
       Entry("jazz", <<"jazz", "blues", "swing", "bebop", "fusion", "dixieland">>),
       Entry("rock", <<"rock", "metal", "punk", "indie", "alternative", "guitar">>),
       Entry("pop", <<"pop", "dance", "disco", "edm", "electronic", "synth">>),
       Entry("folk", <<"folk", "country", "bluegrass", "acoustic", "americana">>),
       Entry("hip-hop", <<"hip", "hop", "rap", "trap", "beats", "rhyme">>),
       Entry("r&b", <<"r&b", "rnb", "soul", "funk", "motown">>),
       Entry("latin", <<"latin", "salsa", "bossa", "tango", "samba", "flamenco">>),
       Entry("world", <<"world", "ethnic", "traditional", "asian", "african", "indian">>),
       Entry("ambient", <<"ambient", "chillout", "lounge", "relaxation", "meditation", "relax">>),
       Entry("film", <<"soundtrack", "score", "film", "movie", "cinematic", "horror">>),
       Entry("video-game", <<"game", "gaming", "video game", "8bit", "chiptune", "arcade">>) >>

(* file_name, parent_dir and grandparent_dir: the last three segments *)
LastThree(path) == {path[i] : i \in {j \in 1..Len(path) : j > Len(path) - 3}}

InAny(word, segments) == \E seg \in segments : word \in Inside(seg)

(* The genre of the first entry of a table one of whose words satisfies    *)
(* the test, or "" when there is none.                                     *)
FirstGenre(table, Hit(_)) ==
    LET hits == {i \in 1..Len(table) : \E w \in Range(table[i].words) : Hit(w)}
    IN IF hits = {} THEN "" ELSE table[CHOOSE i \in hits : \A j \in hits : i <= j].genre

SpecificGenre(path) == FirstGenre(tegridy_specific_genres, LAMBDA w : InAny(w, LastThree(path)))

KnownDatasetGenre(path) ==
    LET has(w) == InAny(w, Range(path))
    IN IF has("tegridy") /\ (has("piano") \/ has("classical")) THEN "classical"
       ELSE IF has("tegridy") /\ has("melodies") THEN "misc"
       ELSE IF has("tegridy") /\ has("children") THEN "children"
       ELSE IF has("beautiful") /\ has("anime") THEN "anime"
       ELSE IF has("beautiful") /\ has("music") THEN "classical"
       ELSE ""

KeywordGenre(path) == FirstGenre(genre_keywords, LAMBDA w : InAny(w, LastThree(path)))

(* A directory segment that is itself a keyword; the file name carries its *)
(* extension and is none.                                                  *)
PartGenre(path) ==
    LET parts == {i \in 1..(Len(path) - 1) :
                    \E e \in Range(genre_keywords) : path[i] \in Range(e.words)}
    IN IF parts = {} THEN ""
       ELSE FirstGenre(genre_keywords,
                       LAMBDA w : w = path[CHOOSE i \in parts : \A j \in parts : i <= j])

OrElse(first, second) == IF first # "" THEN first ELSE second

PathLower(file_path) == [i \in 1..Len(file_path) |-> Lower(file_path[i])]

DetectGenreKeywordsFirst(file_path) ==
    LET path_lower == PathLower(file_path)
    IN OrElse(KeywordGenre(path_lower),
         OrElse(SpecificGenre(path_lower),
           OrElse(KnownDatasetGenre(path_lower), OrElse(PartGenre(path_lower), "misc"))))

DetectGenreFromPath(file_path) ==
    LET path_lower == PathLower(file_path)
    IN OrElse(SpecificGenre(path_lower),
         OrElse(KnownDatasetGenre(path_lower),
           OrElse(KeywordGenre(path_lower), OrElse(PartGenre(path_lower), "misc"))))

Paths == UNION {[1..n -> Segments] : n \in 1..MaxDepth}

DetectCall(path) == [op |-> "detect", path |-> path]

DetectGenre ==
    /\ Idle
    /\ \E path \in Paths :
         /\ result' = <<DetectGenreFromPath(path)>>
         /\ last' = DetectCall(path)
    /\ outcome' = "returned"
    /\ UNCHANGED <<store, runs, executor, synthetic_templates, composer_app>>

NextGenre == DetectGenre \/ Consume

SpecGenre == Init /\ [][NextGenre]_vars

Detected == last.op = "detect" /\ outcome = "returned"

GenresMatching(table, Hit(_)) ==
    {e.genre : e \in {x \in Range(table) : \E w \in Range(x.words) : Hit(w)}}

SpecificMatches(path) ==
    GenresMatching(tegridy_specific_genres, LAMBDA w : InAny(w, LastThree(PathLower(path))))

KeywordMatches(path) ==
    GenresMatching(genre_keywords, LAMBDA w : InAny(w, LastThree(PathLower(path))))

PartMatches(path) ==
    GenresMatching(genre_keywords, LAMBDA w : \E i \in 1..(Len(path) - 1) : Lower(path[i]) = w)

Labels ==
    {tegridy_specific_genres[i].genre : i \in 1..Len(tegridy_specific_genres)}
      \cup {genre_keywords[i].genre : i \in 1..Len(genre_keywords)} \cup {"misc"}

(* C23: detect_genre_from_path returns a genre label for every path; a     *)
(* dataset-specific directory-name pattern decides before the generic      *)
(* keywords, a generic keyword in the path before a path segment that is   *)
(* exactly a keyword, and the label is "misc" when no rule matches.        *)
C23_ResolutionOrder ==
    Detected =>
        LET path == last.path
            label == result[1]
            dataset == KnownDatasetGenre(PathLower(path))
        IN /\ label \in Labels
           /\ SpecificMatches(path) # {} => label \in SpecificMatches(path)
           /\ (SpecificMatches(path) = {} /\ dataset # "") => label = dataset
           /\ (SpecificMatches(path) = {} /\ dataset = "" /\ KeywordMatches(path) # {})
                 => label \in KeywordMatches(path)
           /\ (SpecificMatches(path) = {} /\ dataset = "" /\ KeywordMatches(path) = {}
                 /\ PartMatches(path) # {}) => label \in PartMatches(path)
           /\ (SpecificMatches(path) = {} /\ dataset = "" /\ KeywordMatches(path) = {}
                 /\ PartMatches(path) = {}) => label = "misc"

C23_Witness ==
    /\ Detected
    /\ SpecificMatches(last.path) = {"jazz"}
    /\ "classical" \in KeywordMatches(last.path)
    /\ "rock" \in PartMatches(last.path)
    /\ result = <<"jazz">>

(***************************************************************************)
(* The two embedding functions.  A batch is a list of texts; fails is the  *)
(* set of positions whose genai.embed_content call raises.  A real         *)
(* embedding is told from the zero vector by the text it embeds.           *)
(***************************************************************************)
MaxBatch == 3
EmbeddingDim == 768

Texts == {"a piano segment", "a jazz melody"}
Batches == UNION {[1..n -> Texts] : n \in 0..MaxBatch}

Embedding(text) == [dim |-> EmbeddingDim, of |-> text]
ZeroVector == [dim |-> EmbeddingDim, of |-> "zeros"]

(* MIDIEmbeddingFunction.__call__: one try around the whole loop *)
MIDIEmbeddingFunction(input, fails) ==
    IF fails # {} THEN [i \in 1..Len(input) |-> ZeroVector]
    ELSE [i \in 1..Len(input) |-> Embedding(input[i])]

(* GeminiEmbeddingFunction.__call__: one try for each document *)
GeminiEmbeddingFunction(input, fails) ==
    [i \in 1..Len(input) |-> IF i \in fails THEN ZeroVector ELSE Embedding(input[i])]

EmbedCall(fn, input, fails) == [op |-> "embed", fn |-> fn, input |-> input, fails |-> fails]

EmbedForRag ==
    /\ Idle
    /\ \E input \in Batches, fails \in SUBSET (1..MaxBatch) :
         /\ fails \subseteq 1..Len(input)
         /\ result' = <<MIDIEmbeddingFunction(input, fails)>>
         /\ last' = EmbedCall("MIDIEmbeddingFunction", input, fails)
    /\ outcome' = "returned"
    /\ UNCHANGED <<store, runs, executor, synthetic_templates, composer_app>>

EmbedForLoader ==
    /\ Idle
    /\ \E input \in Batches, fails \in SUBSET (1..MaxBatch) :
         /\ fails \subseteq 1..Len(input)
         /\ result' = <<GeminiEmbeddingFunction(input, fails)>>
         /\ last' = EmbedCall("GeminiEmbeddingFunction", input, fails)
    /\ outcome' = "returned"
    /\ UNCHANGED <<store, runs, executor, synthetic_templates, composer_app>>

NextEmbed == EmbedForRag \/ EmbedForLoader \/ Consume

SpecEmbed == Init /\ [][NextEmbed]_vars

(* C24: the embedding function returns exactly one vector for each input   *)
(* text: a text whose embedding fails gets the 768-dimension zero vector   *)
(* and every other text of the batch keeps its real embedding.             *)
C24_ZeroVectorOnlyForFailedText ==
    (last.op = "embed" /\ outcome = "returned") =>
        /\ Len(result[1]) = Len(last.input)
        /\ \A i \in 1..Len(last.input) :
              result[1][i] = IF i \in last.fails THEN ZeroVector ELSE Embedding(last.input[i])

(***************************************************************************)
(* process_directory: every file is submitted to a ThreadPoolExecutor of   *)
(* os.cpu_count() threads; each thread runs process_midi_file on the files *)
(* it takes, and add_patterns_to_db calls collection.add once for each     *)
(* extracted pattern, in the order segments, chord_progressions, melodies. *)
(* The extraction touches nothing shared and is one step with the taking   *)
(* of the file; a collection.add call has a beginning and an end.          *)
(***************************************************************************)
MaxWorkers == 2

PoolFiles == {"a.mid", "b.mid"}
Submissions == {<<"a.mid">>, <<"b.mid">>, <<"a.mid", "b.mid">>, <<"b.mid", "a.mid">>}

IdleThread == [pc |-> "idle", file |-> "", todo |-> <<>>]

TypeOrder == <<"segment", "progression", "melody">>

TypesFound(has) == SelectSeq(TypeOrder, LAMBDA t : has[t])

Threads == DOMAIN executor.thread

Adding == {w \in Threads : executor.thread[w].pc = "adding"}

ProcessDirectory ==
    /\ Idle
    /\ executor = NoPool
    /\ \E midi_paths \in Submissions, cpu_count \in 1..MaxWorkers :
         executor' = [files |-> midi_paths, queue |-> midi_paths,
                  thread |-> [w \in 1..cpu_count |-> IdleThread]]
    /\ UNCHANGED <<store, runs, result, outcome, last, synthetic_templates, composer_app>>

ProcessMidiFile(w) ==
    /\ executor.thread[w].pc = "idle"
    /\ executor.queue # <<>>
    /\ \E has \in [Types -> BOOLEAN] :
         executor' = [executor EXCEPT !.queue = Tail(executor.queue),
                              !.thread[w] = IF TypesFound(has) = <<>> THEN IdleThread
                                            ELSE [pc |-> "ready", file |-> Head(executor.queue),
                                                  todo |-> TypesFound(has)]]
    /\ UNCHANGED <<store, runs, result, outcome, last, synthetic_templates, composer_app>>

BeginAdd(w) ==
    /\ executor.thread[w].pc = "ready"
    /\ executor' = [executor EXCEPT !.thread[w].pc = "adding"]
    /\ UNCHANGED <<store, runs, result, outcome, last, synthetic_templates, composer_app>>

EndAdd(w) ==
    /\ executor.thread[w].pc = "adding"
    /\ LET t == Head(executor.thread[w].todo)
           rest == Tail(executor.thread[w].todo)
       IN /\ \E raised \in BOOLEAN :
                store' = IF raised THEN store
                         ELSE [store EXCEPT ![t] = Add(store[t], FormatPatternForChromadb(executor.thread[w].file, t))]
          /\ executor' = [executor EXCEPT !.thread[w] = IF rest = <<>> THEN IdleThread
                                                ELSE [@ EXCEPT !.pc = "ready", !.todo = rest]]
    /\ UNCHANGED <<runs, result, outcome, last, synthetic_templates, composer_app>>

LoadCall(files, workers) == [op |-> "load", files |-> files, workers |-> workers]

FinishDirectory ==
    /\ executor # NoPool
    /\ executor.queue = <<>>
    /\ \A w \in Threads : executor.thread[w].pc = "idle"
    /\ executor' = NoPool
    /\ result' = <<>>
    /\ outcome' = "returned"
    /\ last' = LoadCall(executor.files, Len(executor.thread))
    /\ UNCHANGED <<store, runs, synthetic_templates, composer_app>>

NextLoad ==
    \/ ProcessDirectory
    \/ \E w \in Threads : ProcessMidiFile(w)
    \/ \E w \in Threads : BeginAdd(w)
    \/ \E w \in Threads : EndAdd(w)
    \/ FinishDirectory
    \/ Consume

SpecLoad == Init /\ [][NextLoad]_vars

(* C25: at most one writer mutates the vector store at a time: during      *)
(* corpus loading no two collection.add calls are in progress together.    *)
C25_OneWriterAtATime == Cardinality(Adding) <= 1

(***************************************************************************)
(* _generate_synthetic_patterns.  Every variation is a deep copy of the    *)
(* segment template whose note velocities are shifted by                   *)
(* random.randint(-10, 10) and clamped; a variation draws here one shift   *)
(* for all its notes.                                                      *)
(***************************************************************************)
MaxJitter == 10
MinVelocity == 30
MaxVelocity == 127

SynthGenres == {"pop", "Rock", "classical", "jazz", "funk"}

Jitters == (0 - MaxJitter)..MaxJitter

Clamp(velocity) ==
    IF velocity > MaxVelocity THEN MaxVelocity
    ELSE IF velocity < MinVelocity THEN MinVelocity ELSE velocity

Vary(instruments, jitter) ==
    [k \in 1..Len(instruments) |->
       Inst(instruments[k].name,
            [n \in 1..Len(instruments[k].velocities) |-> Clamp(instruments[k].velocities[n] + jitter)])]

(* Without the deep copy every variation is the template itself, shifted   *)
(* once more.                                                              *)
VariationsInPlace(template, jitters) ==
    LET shifted == Vary(Vary(Vary(template.instruments, jitters[1]), jitters[2]), jitters[3])
    IN [i \in 1..Len(jitters) |-> [instruments |-> shifted]]

Variations(template, jitters) ==
    [i \in 1..Len(jitters) |-> [instruments |-> Vary(template.instruments, jitters[i])]]

RECURSIVE Flatten(_)
Flatten(lists) == IF lists = <<>> THEN <<>> ELSE Head(lists) \o Flatten(Tail(lists))

GenerateSyntheticPatterns(table, genre, jitters) ==
    LET templates == table[TemplateKey(genre)]
    IN [musical_segments |->
          Flatten([k \in 1..Len(templates.segments) |-> Variations(templates.segments[k], jitters)]),
        chord_progressions |-> templates.chord_progressions,
        melody_sequences |-> templates.melody_sequences]

SynthCall(genre, jitters) == [op |-> "synthesize", genre |-> genre, jitters |-> jitters]

GenerateSyntheticCall ==
    /\ Idle
    /\ \E genre \in SynthGenres, jitters \in [1..SyntheticCount("segment") -> Jitters] :
         /\ result' = <<GenerateSyntheticPatterns(synthetic_templates, genre, jitters)>>
         /\ last' = SynthCall(genre, jitters)
    /\ outcome' = "returned"
    /\ UNCHANGED <<store, runs, executor, synthetic_templates, composer_app>>

NextSynth == GenerateSyntheticCall \/ Consume

SpecSynth == Init /\ [][NextSynth]_vars

Synthesized == last.op = "synthesize" /\ outcome = "returned"

Near(velocity, authored) ==
    /\ velocity - authored <= MaxJitter
    /\ authored - velocity <= MaxJitter
    /\ velocity \in MinVelocity..MaxVelocity

VariantOf(segment, template) ==
    /\ Len(segment.instruments) = Len(template.instruments)
    /\ \A k \in 1..Len(template.instruments) :
          /\ segment.instruments[k].name = template.instruments[k].name
          /\ Len(segment.instruments[k].velocities) = Len(template.instruments[k].velocities)
          /\ \A n \in 1..Len(template.instruments[k].velocities) :
                Near(segment.instruments[k].velocities[n], template.instruments[k].velocities[n])

(* C26: a call of _generate_synthetic_patterns turns every segment         *)
(* template of the chosen genre into exactly 3 variants whose velocities   *)
(* differ from the hand-authored ones by at most 10 and stay in 30..127,   *)
(* returns the chord-progression and melody templates unmodified, and      *)
(* leaves the template table unchanged.                                    *)
C26_ThreeBoundedVariants ==
    /\ synthetic_templates = HandAuthored
    /\ Synthesized =>
          LET authored == HandAuthored[TemplateKey(last.genre)]
              segments == result[1].musical_segments
          IN /\ Len(segments) = 3 * Len(authored.segments)
             /\ \A k \in 1..Len(authored.segments) : \A i \in 1..3 :
                   VariantOf(segments[3 * (k - 1) + i], authored.segments[k])
             /\ result[1].chord_progressions = authored.chord_progressions
             /\ result[1].melody_sequences = authored.melody_sequences

C26_Witness ==
    /\ Synthesized
    /\ last.genre = "Rock"
    /\ synthetic_templates = HandAuthored
    /\ Len(result[1].musical_segments) = 3
    /\ result[1].musical_segments[1].instruments[1].velocities[1] = 100 + MaxJitter
    /\ result[1].musical_segments[2].instruments[1].velocities[1] = 100
    /\ result[1].musical_segments[3].instruments[2].velocities[2] = 90 - MaxJitter

(***************************************************************************)
(* C27: index_midi_patterns_from_tegridy skips a record whose              *)
(* vectorization, serialization or add fails and goes on with the others,  *)
(* and the number it returns is the number of records the run actually     *)
(* added to the three collections.                                         *)
(***************************************************************************)
Indexed == last.op = "initialize" /\ outcome = "returned"

AddedByRun == GetCollectionStats(store) - last.total_patterns

Stored(id) == \E t \in Types : \E r \in store[t] : r.id = id

C27_ReturnsNumberAdded ==
    Indexed =>
        /\ last.total_new_patterns = AddedByRun
        /\ \A k \in 1..Len(last.log) : last.log[k].how = "added" => Stored(last.log[k].id)

(***************************************************************************)
(* C29: over any sequence of indexing runs, every add call is made with an *)
(* id that is not yet in its collection, whether or not an earlier record  *)
(* of the run failed.                                                      *)
(***************************************************************************)
AddCalls == {k \in 1..Len(last.log) : last.log[k].how # "no add"}

C29_AddIdsAreFresh ==
    Indexed => \A k \in AddCalls : ~last.log[k].present

(***************************************************************************)
(* midi_reference_agent (src/agents/midi_reference_agent.py).               *)
(* get_rag_patterns(genre): initialize_midi_rag_database(), which indexes  *)
(* when the store is empty and catches its own errors, then one            *)
(* retrieve_similar_patterns call per pattern type with top_k 5, 3 and 3.  *)
(* The direct query of the types in down raises, so that retrieval         *)
(* returns the empty list.                                                 *)
(***************************************************************************)
SegmentTopK == 5
OtherTopK == 3

AgentTopK(ptype) == IF ptype = "segment" THEN SegmentTopK ELSE OtherTopK

Indexings(st) ==
    IF SkipsIndexing(GetCollectionStats(st), FALSE) THEN {[store |-> st, indexed |-> 0]}
    ELSE {[store |-> o.store, indexed |-> 1] :
            o \in UNION {IndexMidiPatternsFromTegridy(st, SeedGenres, cache, NoFailure, FALSE) :
                           cache \in SUBSET SeedSet}}

Retrieved(coll, genre, ptype, down) ==
    IF ptype \in down
    THEN {Len(RetrieveSimilarPatterns(genre, ptype, AgentTopK(ptype), <<>>, TRUE, <<>>, FALSE).result)}
    ELSE {Len(RetrieveSimilarPatterns(genre, ptype, AgentTopK(ptype), ranked, FALSE, sample, FALSE).result) :
            ranked \in Query(coll, 2 * AgentTopK(ptype)),
            sample \in InjSeqs(coll, SampleSize(AgentTopK(ptype), coll))}

RagPatterns(segments, progressions, melodies) ==
    [segments |-> segments, progressions |-> progressions, melodies |-> melodies,
     total_retrieved |-> segments + progressions + melodies]

GetRagPatterns(st, genre, down) ==
    UNION {{[store |-> o.store, indexed |-> o.indexed, patterns |-> RagPatterns(n[1], n[2], n[3])] :
              n \in Retrieved(o.store["segment"], genre, "segment", down)
                    \X Retrieved(o.store["progression"], genre, "progression", down)
                    \X Retrieved(o.store["melody"], genre, "melody", down)} :
           o \in Indexings(st)}

fallback_genres == <<"classical", "rock", "pop", "jazz", "metal">>

FallbackSequence(genre) ==
    IF Lower(genre) \notin Range(fallback_genres) THEN <<genre>> \o fallback_genres
    ELSE fallback_genres

Upper(genre) ==
    CASE Lower(genre) = "classical" -> "CLASSICAL"
      [] Lower(genre) = "rock" -> "ROCK"
      [] Lower(genre) = "pop" -> "POP"
      [] Lower(genre) = "jazz" -> "JAZZ"
      [] Lower(genre) = "metal" -> "METAL"
      [] Lower(genre) = "funk" -> "FUNK"

(***************************************************************************)
(* The loop over the fallback sequence: each genre is queried in turn      *)
(* until one query returns at least one pattern.  queried lists the        *)
(* get_rag_patterns calls made, with the number of patterns each returned. *)
(***************************************************************************)
Queried(genre, total) == [genre |-> genre, total |-> total]

Found(st, indexed, genre, patterns, queried) ==
    [store |-> st, indexed |-> indexed, genre |-> genre, patterns |-> patterns, queried |-> queried]

RECURSIVE TryGenres(_, _, _, _, _, _)
TryGenres(st, indexed, genre, genres, i, queried) ==
    IF i > Len(genres) THEN {Found(st, indexed, genre, RagPatterns(0, 0, 0), queried)}
    ELSE UNION {
           UNION {IF o.patterns.total_retrieved > 0
                  THEN {Found(o.store, indexed + o.indexed, genres[i], o.patterns,
                              Append(queried, Queried(genres[i], o.patterns.total_retrieved)))}
                  ELSE TryGenres(o.store, indexed + o.indexed, genre, genres, i + 1,
                                 Append(queried, Queried(genres[i], 0))) :
                    o \in GetRagPatterns(st, genres[i], down)} :
           down \in {{}, Types}}

RequestedGenres == {"", "classical", "jazz", "Rock", "funk"}

AgentCall(genre, queried) == [op |-> "agent", genre |-> genre, queried |-> queried]

NewState(genre, patterns) ==
    [rag_patterns |-> patterns, rag_instructions |-> Upper(genre), pattern_summary |-> genre,
     pattern_source |-> "vector_database_rag"]

MidiReferenceAgent ==
    /\ Idle
    /\ \E requested \in RequestedGenres :
         LET genre == IF requested = "" THEN "classical" ELSE requested IN
         \E o \in TryGenres(store, 0, genre, FallbackSequence(genre), 1, <<>>) :
           /\ runs + o.indexed <= MaxRuns
           /\ store' = o.store
           /\ runs' = runs + o.indexed
           /\ result' = <<NewState(o.genre, o.patterns)>>
           /\ last' = AgentCall(requested, o.queried)
    /\ outcome' = "returned"
    /\ UNCHANGED <<executor, synthetic_templates, composer_app>>

NextAgent == MidiReferenceAgent \/ LoaderAdd \/ Consume

SpecAgent == Init /\ [][NextAgent]_vars

(***************************************************************************)
(* C28: midi_reference_agent queries the requested genre first, goes on to *)
(* the fallback genres classical, rock, pop, jazz, metal only after the    *)
(* requested genre returned no pattern, and the genre its instructions     *)
(* name is the genre whose query returned the patterns.                    *)
(***************************************************************************)
AgentReturned == last.op = "agent" /\ outcome = "returned"

RequestedGenre == IF last.genre = "" THEN "classical" ELSE last.genre

C28_RequestedGenreFirst ==
    AgentReturned =>
        LET q == last.queried IN
        /\ q # <<>>
        /\ Lower(q[1].genre) = Lower(RequestedGenre)
        /\ \A k \in 2..Len(q) : q[k - 1].total = 0 /\ Lower(q[k].genre) \in Range(fallback_genres)
        /\ q[Len(q)].total > 0 =>
             /\ result[1].rag_instructions = Upper(q[Len(q)].genre)
             /\ result[1].pattern_summary = q[Len(q)].genre
             /\ result[1].rag_patterns.total_retrieved = q[Len(q)].total

(***************************************************************************)
(* The composer graph (src/graph/composer_graph.py), run by                *)
(* composer_app.invoke.  A run proceeds in supersteps: the nodes triggered *)
(* by the edges of the nodes of the previous superstep all run, in any     *)
(* interleaving, and the superstep ends when all of them have finished.    *)
(* An edge from a single node triggers its target whenever that node has   *)
(* run; it does not wait for the other nodes that have an edge to the      *)
(* same target.  The bodies of the nodes are the agents; of the state they *)
(* pass along, only the keys read by instrument_branch are kept.           *)
(***************************************************************************)
START == "__start__"
END == "__end__"

Nodes == {"user_input", "artist_context", "midi_reference", "musical_director", "melody",
          "chord", "instrument", "drum", "vocal", "midi_synth", "audio_renderer", "export"}

Edges == {<<START, "user_input">>, <<"user_input", "artist_context">>,
          <<"artist_context", "midi_reference">>, <<"midi_reference", "musical_director">>,
          <<"musical_director", "melody">>, <<"melody", "chord">>, <<"chord", "instrument">>,
          <<"drum", "vocal">>, <<"drum", "midi_synth">>, <<"vocal", "midi_synth">>,
          <<"midi_synth", "audio_renderer">>, <<"audio_renderer", "export">>, <<"export", END>>}

InstrumentLists == {<<"piano">>, <<"piano", "drums">>, <<"percussion", "bass">>}

instrument_branch(state) ==
    IF \E i \in 1..Len(state.instruments) : state.instruments[i] \in {"drums", "percussion"}
    THEN "drum"
    ELSE IF state.vocals THEN "vocal" ELSE "midi_synth"

Targets(node, state) ==
    IF node = "instrument" THEN {instrument_branch(state)}
    ELSE {e[2] : e \in {d \in Edges : d[1] = node}}

Event(kind, node) == [kind |-> kind, node |-> node]

Started(app, node) == app.started \cup {node}

(* composer_app.invoke(state): START triggers user_input.                  *)
Invoke ==
    /\ Idle
    /\ composer_app.status = "idle"
    /\ \E instruments \in InstrumentLists, vocals \in BOOLEAN :
         composer_app' = [status |-> "running",
                          state |-> [instruments |-> instruments, vocals |-> vocals],
                          tasks |-> Targets(START, [instruments |-> instruments, vocals |-> vocals]),
                          started |-> {}, finished |-> {}, trace |-> <<>>]
    /\ UNCHANGED <<store, runs, result, outcome, last, executor, synthetic_templates>>

StartNode(node) ==
    /\ composer_app.status = "running"
    /\ node \in composer_app.tasks \ composer_app.started
    /\ composer_app' = [composer_app EXCEPT !.started = Started(composer_app, node),
                                            !.trace = Append(@, Event("start", node))]
    /\ UNCHANGED <<store, runs, result, outcome, last, executor, synthetic_templates>>

FinishNode(node) ==
    /\ composer_app.status = "running"
    /\ node \in composer_app.started \ composer_app.finished
    /\ composer_app' = [composer_app EXCEPT !.finished = @ \cup {node},
                                            !.trace = Append(@, Event("finish", node))]
    /\ UNCHANGED <<store, runs, result, outcome, last, executor, synthetic_templates>>

(***************************************************************************)
(* The end of a superstep.  StateGraph(dict) keeps the whole state in one  *)
(* channel; when two nodes of a superstep both return a state, the update  *)
(* is rejected (InvalidUpdateError) or one of the values is kept,          *)
(* depending on the installed langgraph, which the repository does not     *)
(* pin.  The run ends when no node is triggered any more.                  *)
(***************************************************************************)
Triggered(app) == UNION {Targets(n, app.state) : n \in app.tasks} \ {END}

NextStep(app, rejected) ==
    IF rejected THEN [app EXCEPT !.status = "error", !.tasks = {}, !.started = {}, !.finished = {}]
    ELSE IF Triggered(app) = {}
         THEN [app EXCEPT !.status = "done", !.tasks = {}, !.started = {}, !.finished = {}]
         ELSE [app EXCEPT !.tasks = Triggered(app), !.started = {}, !.finished = {}]

EndStep ==
    /\ composer_app.status = "running"
    /\ composer_app.finished = composer_app.tasks
    /\ \E rejected \in (IF Cardinality(composer_app.tasks) > 1 THEN BOOLEAN ELSE {FALSE}) :
         composer_app' = NextStep(composer_app, rejected)
    /\ UNCHANGED <<store, runs, result, outcome, last, executor, synthetic_templates>>

(* invoke returns the final state, or raises.                              *)
InvokeCall(state) == [op |-> "invoke", state |-> state]

Return ==
    /\ composer_app.status \in {"done", "error"}
    /\ composer_app' = NotInvoked
    /\ result' = IF composer_app.status = "done" THEN <<composer_app.state>> ELSE <<>>
    /\ outcome' = IF composer_app.status = "done" THEN "returned" ELSE "raised"
    /\ last' = InvokeCall(composer_app.state)
    /\ UNCHANGED <<store, runs, executor, synthetic_templates>>

NextGraph ==
    \/ Invoke
    \/ \E node \in Nodes : StartNode(node)
    \/ \E node \in Nodes : FinishNode(node)
    \/ EndStep
    \/ Return
    \/ Consume

SpecGraph == Init /\ [][NextGraph]_vars

(***************************************************************************)
(* C30: in every run of the composer graph, whatever the instruments and   *)
(* the vocals flag, each node executes at most once, midi_synth starts     *)
(* only after the drum and vocal nodes of the run have finished, and a run *)
(* that reaches END has passed through midi_synth, audio_renderer and      *)
(* export in that order.                                                   *)
(***************************************************************************)
Occurrences(kind, node) ==
    {i \in 1..Len(composer_app.trace) : composer_app.trace[i] = Event(kind, node)}

InOrder(first, second) ==
    \E i \in Occurrences("finish", first) : \E j \in Occurrences("start", second) : i < j

C30_ComposerGraphOrder ==
    /\ \A node \in Nodes : Cardinality(Occurrences("start", node)) <= 1
    /\ \A i \in Occurrences("start", "midi_synth") : \A node \in {"drum", "vocal"} :
         \A j \in Occurrences("start", node) :
           \E k \in Occurrences("finish", node) : j < k /\ k < i
    /\ composer_app.status = "done" =>
         /\ InOrder("midi_synth", "audio_renderer")
         /\ InOrder("audio_renderer", "export")
         /\ Occurrences("finish", "export") # {}

====
